---- MODULE Spec2Model ----
(***************************************************************************)
(* A model of the DCP chat server prototype: the binary frame codec of     *)
(* parser.py and the connection, dispatch, registration and liveness code  *)
(* of server.py.  Bytes are naturals 0..255, byte strings and text strings *)
(* are sequences of them (the inputs used here are ASCII, for which        *)
(* decode('utf-8') and encode('utf-8') keep every byte).                   *)
(***************************************************************************)
EXTENDS Integers, Sequences, FiniteSets, TLC

(***************************************************************************)
(* Bounds of the model.                                                    *)
(***************************************************************************)
\* number of connections the acceptor creates
NumSessions == 2
\* longest read buffer a session is left with
MaxBuf == 12

(***************************************************************************)
(* Program constants.                                                      *)
(***************************************************************************)
MAXFRAME == 1400
MAXTARGET == 48
UNREG == 1
SIGNON == 2
SignonDelay == 60
PingDelayMin == 4500
PingDelayMax == 6000
MinPassword == 5
HandleMax == 48
GecosMax == 48
GroupMax == 48

\* Python's None where a string is expected: no byte string equals it
None == <<-1>>

(***************************************************************************)
(* String literals of the sources, as byte sequences.                      *)
(***************************************************************************)
\* '*'
S_star == <<42>>
\* ''
S_empty == <<>>
\* 'signon'
S_signon == <<115, 105, 103, 110, 111, 110>>
\* 'register'
S_register == <<114, 101, 103, 105, 115, 116, 101, 114>>
\* 'message'
S_message == <<109, 101, 115, 115, 97, 103, 101>>
\* 'motd'
S_motd == <<109, 111, 116, 100>>
\* 'whois'
S_whois == <<119, 104, 111, 105, 115>>
\* 'group-enter'
S_group_enter == <<103, 114, 111, 117, 112, 45, 101, 110, 116, 101, 114>>
\* 'group-exit'
S_group_exit == <<103, 114, 111, 117, 112, 45, 101, 120, 105, 116>>
\* 'pong'
S_pong == <<112, 111, 110, 103>>
\* 'ping'
S_ping == <<112, 105, 110, 103>>
\* 'error'
S_error == <<101, 114, 114, 111, 114>>
\* 'elizabethmyers.me.uk'
S_servname == <<101, 108, 105, 122, 97, 98, 101, 116, 104, 109, 121, 101, 114, 115, 46, 109, 101, 46, 117, 107>>
\* 'servpass'
K_servpass == <<115, 101, 114, 118, 112, 97, 115, 115>>
\* 'handle'
K_handle == <<104, 97, 110, 100, 108, 101>>
\* 'password'
K_password == <<112, 97, 115, 115, 119, 111, 114, 100>>
\* 'gecos'
K_gecos == <<103, 101, 99, 111, 115>>
\* 'options'
K_options == <<111, 112, 116, 105, 111, 110, 115>>
\* 'message'
K_message == <<109, 101, 115, 115, 97, 103, 101>>
\* 'command'
K_command == <<99, 111, 109, 109, 97, 110, 100>>
\* 'reason'
K_reason == <<114, 101, 97, 115, 111, 110>>
\* 'name'
K_name == <<110, 97, 109, 101>>
\* 'time'
K_time == <<116, 105, 109, 101>>
\* 'version'
K_version == <<118, 101, 114, 115, 105, 111, 110>>
\* 'text'
K_text == <<116, 101, 120, 116>>
\* 'multipart'
K_multipart == <<109, 117, 108, 116, 105, 112, 97, 114, 116>>
\* 'part'
K_part == <<112, 97, 114, 116>>
\* 'total'
K_total == <<116, 111, 116, 97, 108>>
\* 'No such command'
R_NoSuchCommand == <<78, 111, 32, 115, 117, 99, 104, 32, 99, 111, 109, 109, 97, 110, 100>>
\* 'You are not registered'
R_NotRegistered == <<89, 111, 117, 32, 97, 114, 101, 32, 110, 111, 116, 32, 114, 101, 103, 105, 115, 116, 101, 114, 101, 100>>
\* 'This command is only usable before registration'
R_OnlyBeforeRegistration == <<84, 104, 105, 115, 32, 99, 111, 109, 109, 97, 110, 100, 32, 105, 115, 32, 111, 110, 108, 121, 32, 117, 115, 97, 98, 108, 101, 32, 98, 101, 102, 111, 114, 101, 32, 114, 101, 103, 105, 115, 116, 114, 97, 116, 105, 111, 110>>
\* "Internal server error (this isn't your fault)"
R_InternalProcess == <<73, 110, 116, 101, 114, 110, 97, 108, 32, 115, 101, 114, 118, 101, 114, 32, 101, 114, 114, 111, 114, 32, 40, 116, 104, 105, 115, 32, 105, 115, 110, 39, 116, 32, 121, 111, 117, 114, 32, 102, 97, 117, 108, 116, 41>>
\* "Internal server error (This isn't your fault)"
R_InternalData == <<73, 110, 116, 101, 114, 110, 97, 108, 32, 115, 101, 114, 118, 101, 114, 32, 101, 114, 114, 111, 114, 32, 40, 84, 104, 105, 115, 32, 105, 115, 110, 39, 116, 32, 121, 111, 117, 114, 32, 102, 97, 117, 108, 116, 41>>
\* 'Parser failure'
R_ParserFailure == <<80, 97, 114, 115, 101, 114, 32, 102, 97, 105, 108, 117, 114, 101>>
\* 'Bad server password'
R_BadServpass == <<66, 97, 100, 32, 115, 101, 114, 118, 101, 114, 32, 112, 97, 115, 115, 119, 111, 114, 100>>
\* 'No handle'
R_NoHandle == <<78, 111, 32, 104, 97, 110, 100, 108, 101>>
\* 'Invalid handle'
R_InvalidHandle == <<73, 110, 118, 97, 108, 105, 100, 32, 104, 97, 110, 100, 108, 101>>
\* 'Handle is too long'
R_HandleTooLong == <<72, 97, 110, 100, 108, 101, 32, 105, 115, 32, 116, 111, 111, 32, 108, 111, 110, 103>>
\* 'You are not registered with the server'
R_NotInStore == <<89, 111, 117, 32, 97, 114, 101, 32, 110, 111, 116, 32, 114, 101, 103, 105, 115, 116, 101, 114, 101, 100, 32, 119, 105, 116, 104, 32, 116, 104, 101, 32, 115, 101, 114, 118, 101, 114>>
\* 'Invalid password'
R_InvalidPassword == <<73, 110, 118, 97, 108, 105, 100, 32, 112, 97, 115, 115, 119, 111, 114, 100>>
\* 'No multiple users at the moment'
R_NoMultiple == <<78, 111, 32, 109, 117, 108, 116, 105, 112, 108, 101, 32, 117, 115, 101, 114, 115, 32, 97, 116, 32, 116, 104, 101, 32, 109, 111, 109, 101, 110, 116>>
\* 'Handle already registered'
R_AlreadyRegistered == <<72, 97, 110, 100, 108, 101, 32, 97, 108, 114, 101, 97, 100, 121, 32, 114, 101, 103, 105, 115, 116, 101, 114, 101, 100>>
\* 'GECOS is too long'
R_GecosTooLong == <<71, 69, 67, 79, 83, 32, 105, 115, 32, 116, 111, 111, 32, 108, 111, 110, 103>>
\* 'Bad password'
R_BadPassword == <<66, 97, 100, 32, 112, 97, 115, 115, 119, 111, 114, 100>>
\* 'Registration successful, beginning signon'
R_RegOk == <<82, 101, 103, 105, 115, 116, 114, 97, 116, 105, 111, 110, 32, 115, 117, 99, 99, 101, 115, 115, 102, 117, 108, 44, 32, 98, 101, 103, 105, 110, 110, 105, 110, 103, 32, 115, 105, 103, 110, 111, 110>>
\* 'Ping timeout'
R_PingTimeout == <<80, 105, 110, 103, 32, 116, 105, 109, 101, 111, 117, 116>>
\* 'Timed out'
R_TimedOut == <<84, 105, 109, 101, 100, 32, 111, 117, 116>>
\* 'Minnow prototype server'
V_product == <<77, 105, 110, 110, 111, 119, 32, 112, 114, 111, 116, 111, 116, 121, 112, 101, 32, 115, 101, 114, 118, 101, 114>>
\* 'v0.1-prealpha'
V_release == <<118, 48, 46, 49, 45, 112, 114, 101, 97, 108, 112, 104, 97>>
\* 'body'
K_body == <<98, 111, 100, 121>>
\* 'target'
K_target == <<116, 97, 114, 103, 101, 116>>
\* 'acl'
K_acl == <<97, 99, 108>>
\* 'groups'
K_groups == <<103, 114, 111, 117, 112, 115>>
\* 'user:auspex'
A_user_auspex == <<117, 115, 101, 114, 58, 97, 117, 115, 112, 101, 120>>
\* 'private'
P_private == <<112, 114, 105, 118, 97, 116, 101>>
\* 'No valid target'
R_NoValidTarget == <<78, 111, 32, 118, 97, 108, 105, 100, 32, 116, 97, 114, 103, 101, 116>>
\* 'Cannot message servers yet, sorry'
R_NoServers == <<67, 97, 110, 110, 111, 116, 32, 109, 101, 115, 115, 97, 103, 101, 32, 115, 101, 114, 118, 101, 114, 115, 32, 121, 101, 116, 44, 32, 115, 111, 114, 114, 121>>
\* 'No such group'
R_NoSuchGroup == <<78, 111, 32, 115, 117, 99, 104, 32, 103, 114, 111, 117, 112>>
\* 'No such user'
R_NoSuchUser == <<78, 111, 32, 115, 117, 99, 104, 32, 117, 115, 101, 114>>
\* 'Invalid group'
R_InvalidGroup == <<73, 110, 118, 97, 108, 105, 100, 32, 103, 114, 111, 117, 112>>
\* 'Group name too long'
R_GroupTooLong == <<71, 114, 111, 117, 112, 32, 110, 97, 109, 101, 32, 116, 111, 111, 32, 108, 111, 110, 103>>
\* 'You are already entered'
R_AlreadyEntered == <<89, 111, 117, 32, 97, 114, 101, 32, 97, 108, 114, 101, 97, 100, 121, 32, 101, 110, 116, 101, 114, 101, 100>>
\* 'You are not in that group'
R_NotInGroup == <<89, 111, 117, 32, 97, 114, 101, 32, 110, 111, 116, 32, 105, 110, 32, 116, 104, 97, 116, 32, 103, 114, 111, 117, 112>>
\* 'alice'
H_alice == <<97, 108, 105, 99, 101>>
\* 'bob'
H_bob == <<98, 111, 98>>
\* 'Alice'
G_alice == <<65, 108, 105, 99, 101>>
\* 'hunter2'
PW_hunter2 == <<104, 117, 110, 116, 101, 114, 50>>
\* 'wrong'
PW_wrong == <<119, 114, 111, 110, 103>>
\* 'sekrit'
PW_secret == <<115, 101, 107, 114, 105, 116>>
\* 'bogus'
S_bogus == <<98, 111, 103, 117, 115>>
\* 'hi'
S_hi == <<104, 105>>

(***************************************************************************)
(* Byte-string helpers (Python's bytes and str methods used by the code).  *)
(***************************************************************************)
\* bytes.endswith / str.endswith
EndsWith(bs, suffix) ==
    /\ Len(bs) >= Len(suffix)
    /\ SubSeq(bs, Len(bs) - Len(suffix) + 1, Len(bs)) = suffix

\* str.startswith
StartsWith(bs, prefix) ==
    /\ Len(bs) >= Len(prefix)
    /\ SubSeq(bs, 1, Len(prefix)) = prefix

\* bs[n:]
DropFirst(bs, n) == IF n >= Len(bs) THEN <<>> ELSE SubSeq(bs, n + 1, Len(bs))

\* str.lower() on ASCII text
Lower(tok) == [i \in 1..Len(tok) |-> IF tok[i] >= 65 /\ tok[i] <= 90 THEN tok[i] + 32 ELSE tok[i]]

\* str.replace('-', '_')
ReplaceHyphen(tok) == [i \in 1..Len(tok) |-> IF tok[i] = 45 THEN 95 ELSE tok[i]]

\* bytes.split(b'\0'): n separators give n + 1 tokens, empty ones included.
\* The token that starts at i runs to the next separator, or to the end.
Split(bs) ==
    LET RECURSIVE TokensFrom(_)
        TokensFrom(i) ==
            LET seps == {z \in i..Len(bs) : bs[z] = 0}
            IN IF seps = {} THEN <<SubSeq(bs, i, Len(bs))>>
               ELSE LET z == CHOOSE x \in seps : \A y \in seps : x <= y
                    IN <<SubSeq(bs, i, z - 1)>> \o TokensFrom(z + 1)
    IN TokensFrom(1)

\* index of the last occurrence of b'\0\0' in bs (its first byte), 0 when absent
RECURSIVE RFindTerminator(_, _)
RFindTerminator(bs, i) ==
    IF i < 1 THEN 0
    ELSE IF bs[i] = 0 /\ bs[i + 1] = 0 THEN i
    ELSE RFindTerminator(bs, i - 1)

\* bytes.rpartition(b'\0\0'): <<head, sep, tail>>
RPartition(bs) ==
    LET i == RFindTerminator(bs, Len(bs) - 1) IN
    IF i = 0 THEN <<<<>>, <<>>, bs>>
    ELSE <<SubSeq(bs, 1, i - 1), <<0, 0>>, DropFirst(bs, i + 1)>>

(***************************************************************************)
(* parser.py: frames and the binary codec.  A kval is an insertion-ordered *)
(* dict: a sequence of entries [k, v] with distinct keys, v a list.        *)
(***************************************************************************)
Frame(source, target, command, kval) ==
    [source |-> source, target |-> target, command |-> command, kval |-> kval]

Terminator == <<0, 0>>

\* key in kval
KvalHas(kval, key) == \E i \in 1..Len(kval) : kval[i].k = key

\* kval[key] for a key of kval
KvalAt(kval, key) == kval[CHOOSE i \in 1..Len(kval) : kval[i].k = key].v

\* kval.get(key, default)
KvalGet(kval, key, default) == IF KvalHas(kval, key) THEN KvalAt(kval, key) ELSE default

\* kval[key].append(v) on a defaultdict(list)
KvalAppend(kval, key, v) ==
    IF KvalHas(kval, key)
    THEN [i \in 1..Len(kval) |-> IF kval[i].k = key
                                 THEN [k |-> key, v |-> Append(kval[i].v, v)]
                                 ELSE kval[i]]
    ELSE Append(kval, [k |-> key, v |-> <<v>>])

\* dict.update(other)
RECURSIVE KvalUpdate(_, _)
KvalUpdate(kval, other) ==
    IF other = <<>> THEN kval
    ELSE LET e == Head(other)
             upd == IF KvalHas(kval, e.k)
                    THEN [i \in 1..Len(kval) |-> IF kval[i].k = e.k THEN e ELSE kval[i]]
                    ELSE Append(kval, e)
         IN KvalUpdate(upd, Tail(other))

\* the key/value loop of Frame.parse over the tokens after the command
RECURSIVE ParsePairs(_, _, _)
ParsePairs(toks, i, kval) ==
    IF i + 1 > Len(toks) THEN [err |-> "", kval |-> kval]
    ELSE LET k == Lower(toks[i])
             v == toks[i + 1]
         IN IF KvalHas(kval, k) /\ (\E j \in 1..Len(KvalAt(kval, k)) : KvalAt(kval, k)[j] = v)
            THEN [err |-> "ParserValueError", kval |-> kval]
            ELSE ParsePairs(toks, i + 2, KvalAppend(kval, k, v))

NoFrame == Frame(None, None, None, <<>>)

\* Frame.parse(text): the error raised ("" for none) and the frame returned
Frame_parse(text) ==
    IF ~EndsWith(text, Terminator) \/ Len(text) < 10
    THEN [err |-> "ParserIncompleteError", frame |-> NoFrame]
    ELSE LET llen == text[1] * 256 + text[2] IN
    IF llen > MAXFRAME
    THEN [err |-> "ParserSizeError", frame |-> NoFrame]
    ELSE LET split == Split(DropFirst(text, 3))
             toks0 == IF split[Len(split)] = <<>> THEN SubSeq(split, 1, Len(split) - 1) ELSE split
         IN
    IF Len(toks0) < 3
    THEN [err |-> "ParserInvalidError", frame |-> NoFrame]
    ELSE LET toks == IF Len(toks0) > 3 /\ (Len(toks0) - 3) % 2 = 1
                     THEN Append(toks0, S_star) ELSE toks0
             kv == ParsePairs(toks, 4, <<>>)
         IN IF kv.err # ""
            THEN [err |-> kv.err, frame |-> NoFrame]
            ELSE [err |-> "",
                  frame |-> Frame(Lower(toks[1]), Lower(toks[2]), Lower(toks[3]), kv.kval)]

\* sum(len(k) + len(v2) + 2 for each value v2 of each key k)
RECURSIVE SumValues(_, _)
SumValues(key, vals) ==
    IF vals = <<>> THEN 0 ELSE Len(key) + Len(Head(vals)) + 2 + SumValues(key, Tail(vals))

RECURSIVE len_kv(_)
len_kv(kval) ==
    IF kval = <<>> THEN 0 ELSE SumValues(Head(kval).k, Head(kval).v) + len_kv(Tail(kval))

\* Frame._generic_len
generic_len(source, target, command, kval) ==
    3 + Len(source) + 1 + Len(target) + 1 + Len(command) + 1 + 2
      + (IF Len(kval) > 0 THEN len_kv(kval) - 1 ELSE 0)

\* the flat list [k, v2, k, v2', ...] of Frame.__bytes__
RECURSIVE FlatValues(_, _)
FlatValues(key, vals) ==
    IF vals = <<>> THEN <<>> ELSE <<key, Head(vals)>> \o FlatValues(key, Tail(vals))

RECURSIVE FlatKval(_)
FlatKval(kval) ==
    IF kval = <<>> THEN <<>> ELSE FlatValues(Head(kval).k, Head(kval).v) \o FlatKval(Tail(kval))

\* '\0'.join(items)
RECURSIVE Join(_)
Join(items) ==
    IF items = <<>> THEN <<>>
    ELSE IF Len(items) = 1 THEN items[1]
    ELSE items[1] \o <<0>> \o Join(Tail(items))

\* Frame.__bytes__: the error raised ("" for none) and the bytes
Frame_bytes(f) ==
    IF generic_len(f.source, f.target, f.command, f.kval) > MAXFRAME - 20
    THEN [err |-> "ParserSizeError", bytes |-> <<>>]
    ELSE LET body == Join(<<f.source, f.target, f.command>> \o FlatKval(f.kval) \o <<<<0>>>>)
             llen == Len(body) + 3
         IN [err |-> "", bytes |-> <<llen \div 256, llen % 256, 0>> \o body]

(***************************************************************************)
(* The state.                                                              *)
(***************************************************************************)
VARIABLES
    servpass,     \* DCPServer.servpass: None or the configured server password
    motd,         \* DCPServer.motd: the list of MOTD blocks, each a list of lines
    users,        \* DCPServer.users: handle -> the session owning that User object
    groups,       \* DCPServer.groups: group name -> Group
    user_store,   \* DCPServer.user_store: handle -> credential record
    proto         \* the DCPProto of every connection, with its transport and timers

vars == <<servpass, motd, users, groups, user_store, proto>>

Sessions == 1..NumSessions

\* A User object.  Each connection creates at most one, so the object is
\* identified by its connection; proto.user = None is the record NoUser.
User(name, gecos, acls, properties, options) ==
    [name |-> name, gecos |-> gecos, acl |-> acls, properties |-> properties,
     options |-> options, groups |-> {}, timeout |-> FALSE]

NoUser == User(None, None, {}, {}, <<>>)

\* A Group object: its members are the connections of the member users.
Group(name) == [name |-> name, users |-> {}, properties |-> {}]

\* a handle returned by loop.call_later: none yet, armed, cancelled or fired
Timer(state, delay) == [state |-> state, delay |-> delay]

\* DCPProto.__init__
NewProto ==
    [phase |-> "new", buf |-> <<>>, user |-> NoUser, callbacks |-> {},
     timers |-> [signon |-> Timer("none", 0), ping |-> Timer("none", 0)],
     out |-> <<>>]

\* `proto.user` is truthy
HasUser(pr) == pr.user.name # None

(***************************************************************************)
(* The operations below are functions of a world record w: the mutable     *)
(* state plus `exc`, the exception propagating ("" when none).             *)
(***************************************************************************)
World == [users |-> users, groups |-> groups, user_store |-> user_store,
          proto |-> proto, exc |-> ""]

Raise(w, e) == [w EXCEPT !.exc = e]

Caught(w) == [w EXCEPT !.exc = ""]

\* sequencing: the statements K that follow run when w carries no exception
Try(w, K(_)) == IF w.exc # "" THEN w ELSE K(w)

\* del d[key]
MapDel(d, key) == [x \in DOMAIN d \ {key} |-> d[x]]

\* d[key] = val
MapPut(d, key, val) == [x \in DOMAIN d \cup {key} |-> IF x = key THEN val ELSE d[x]]

\* transport.write(bytes(frame)): a transport that is closing or lost drops the data
transport_write(w, p, f) ==
    [w EXCEPT !.proto[p].out = Append(@, [frame |-> f, live |-> w.proto[p].phase = "open"])]

\* transport.close()
transport_close(w, p) ==
    [w EXCEPT !.proto[p].phase = IF @ = "open" THEN "closing" ELSE @]

\* the arguments send() accepts as source and target
Server == [kind |-> "server", p |-> 0, name |-> <<>>]
Nobody == [kind |-> "none", p |-> 0, name |-> <<>>]
UserRef(p) == [kind |-> "user", p |-> p, name |-> <<>>]
GroupRef(name) == [kind |-> "group", p |-> 0, name |-> name]

\* `proto.user` as an argument of send(): the User, or None
UserOrNone(w, p) == IF HasUser(w.proto[p]) THEN UserRef(p) ELSE Nobody

\* DCPProto._proto_name
proto_name(w, t) ==
    CASE t.kind = "user" -> w.proto[t.p].user.name
      [] t.kind = "group" -> t.name
      [] t.kind = "server" -> <<61>> \o S_servname
      [] t.kind = "none" -> S_star

\* DCPProto.send
DCPProto_send(w, p, source, target, command, kval) ==
    LET f == Frame(proto_name(w, source), proto_name(w, target), command, kval)
        b == Frame_bytes(f)
    IN IF b.err # "" THEN Raise(w, b.err) ELSE transport_write(w, p, f)

\* DCPProto.error; extargs is <<>> for None
DCPProto_error(w, p, command, reason, fatal, extargs) ==
    Try(DCPProto_send(w, p, Server, UserOrNone(w, p), S_error,
                      KvalUpdate(<<[k |-> K_command, v |-> <<command>>],
                                   [k |-> K_reason, v |-> <<reason>>]>>, extargs)),
        LAMBDA w1 : IF fatal THEN transport_close(w1, p) ELSE w1)

\* DCPServer.error: dest is a DCPProto or a User; both lead to the User's
\* or the DCPProto's own connection p.
DCPServer_error(w, p, command, reason, fatal, extargs) ==
    DCPProto_error(w, p, command, reason, fatal, extargs)

\* User.send: through the session the user owns
User_send(w, p, source, target, command, kval) ==
    DCPProto_send(w, p, source, target, command, kval)

\* loop.call_later(delay, ...) stored under callbacks[name]
call_later(w, p, name, delay) ==
    [w EXCEPT !.proto[p].timers[name] = Timer("armed", delay),
              !.proto[p].callbacks = @ \cup {name}]

\* handle.cancel(): no effect on a handle that has fired
cancel(w, p, name) ==
    [w EXCEPT !.proto[p].timers[name] =
        IF @.state = "armed" THEN Timer("cancelled", @.delay) ELSE @]

\* str(n) for the small naturals used as part numbers
RECURSIVE Str(_)
Str(n) == IF n < 10 THEN <<48 + n>> ELSE Str(n \div 10) \o <<48 + (n % 10)>>

\* str(round(time.time())): the wall clock is outside the model
S_now == <<48>>

(***************************************************************************)
(* server.py: liveness.                                                    *)
(***************************************************************************)
\* randint(4500, 6000): the delays the model draws
PingDelays == {PingDelayMin, PingDelayMax}

\* DCPServer.ping_timeout; sched is the value randint returns
ping_timeout(w, p, sched) ==
    IF w.proto[p].user.timeout
    THEN DCPServer_error(w, p, S_ping, R_PingTimeout, TRUE, <<>>)
    ELSE Try(User_send(w, p, Server, UserRef(p), S_ping, <<[k |-> K_time, v |-> <<S_now>>]>>),
             LAMBDA w1 : call_later([w1 EXCEPT !.proto[p].user.timeout = TRUE],
                                    p, "ping", sched))

\* a conn_timeout that reports 'Timed out' as a non-fatal error, leaving the
\* transport open: C8_SignonTimer tells it from the one below
conn_timeout_nonfatal(w, p) ==
    IF HasUser(w.proto[p])
    THEN [w EXCEPT !.proto[p].callbacks = @ \ {"signon"}]
    ELSE DCPServer_error(w, p, S_star, R_TimedOut, FALSE, <<>>)

\* DCPServer.conn_timeout
conn_timeout(w, p) ==
    IF HasUser(w.proto[p])
    THEN [w EXCEPT !.proto[p].callbacks = @ \ {"signon"}]
    ELSE DCPServer_error(w, p, S_star, R_TimedOut, TRUE, <<>>)

\* DCPServer.cmd_pong
cmd_pong(w, p, line) == [w EXCEPT !.proto[p].user.timeout = FALSE]

\* the loop of DCPServer.cmd_motd over enumerate(self.motd)
RECURSIVE motd_blocks(_, _, _)
motd_blocks(w, p, i) ==
    IF i > Len(motd) \/ w.exc # "" THEN w
    ELSE motd_blocks(User_send(w, p, Server, UserRef(p), S_motd,
                               <<[k |-> K_text, v |-> motd[i]],
                                 [k |-> K_multipart, v |-> <<S_star>>],
                                 [k |-> K_part, v |-> <<Str(i)>>],
                                 [k |-> K_total, v |-> <<Str(Len(motd))>>]>>),
                     p, i + 1)

\* DCPServer.cmd_motd
cmd_motd(w, p, line) ==
    IF motd = <<>>
    THEN User_send(w, p, Server, UserRef(p), S_motd, <<>>)
    ELSE motd_blocks(w, p, 1)

(***************************************************************************)
(* The collaborators server.py imports: the credential store (storage.py), *)
(* crypt, and the Group operations (group.py).                             *)
(***************************************************************************)
\* a crypt() hash or a bare salt: the salt and the word hashed under it
Hash(salt, word) == [salt |-> salt, word |-> word]

\* crypt(word, salt): salt may be a full hash, whose salt is then reused
Crypt(word, salt) == Hash(salt.salt, word)

\* mksalt(): the salts the model draws
Salts == {1, 2}

\* UserStorage.get(name): the record, or None
UserStorage_get(w, name) ==
    IF name \in DOMAIN w.user_store THEN w.user_store[name]
    ELSE [hash |-> Hash(0, None), gecos |-> None, acls |-> {}, properties |-> {}]

UserStorage_has(w, name) == name \in DOMAIN w.user_store

\* UserStorage.add(name, hash, gecos, acls)
UserStorage_add(w, name, hash, gecos, acls) ==
    IF name \in DOMAIN w.user_store THEN Raise(w, "UserError")
    ELSE [w EXCEPT !.user_store = MapPut(@, name,
              [hash |-> hash, gecos |-> gecos, acls |-> acls, properties |-> {}])]

\* one send per member of a group (the members' sessions are distinct)
RECURSIVE Broadcast(_, _, _, _, _, _)
Broadcast(w, members, source, target, command, kval) ==
    IF members = {} \/ w.exc # "" THEN w
    ELSE LET q == CHOOSE x \in members : TRUE
         IN Broadcast(User_send(w, q, source, target, command, kval),
                      members \ {q}, source, target, command, kval)

\* Group.member_add(user, reason): both sides of the membership, then the
\* join frame to every member, the new one included
Group_member_add(w, g, p, reason) ==
    LET w1 == [w EXCEPT !.groups[g].users = @ \cup {p},
                        !.proto[p].user.groups = @ \cup {g}]
    IN Broadcast(w1, w1.groups[g].users, UserRef(p), GroupRef(g), S_group_enter,
                 IF reason = <<>> THEN <<>> ELSE <<[k |-> K_reason, v |-> <<reason>>]>>)

\* Group.member_del(user, reason): the exit frame to every member, the
\* leaving one included, then both sides of the membership
Group_member_del(w, g, p, reasons) ==
    Try(Broadcast(w, w.groups[g].users, UserRef(p), GroupRef(g), S_group_exit,
                  IF reasons = <<>> THEN <<>> ELSE <<[k |-> K_reason, v |-> reasons]>>),
        LAMBDA w1 : [w1 EXCEPT !.groups[g].users = @ \ {p},
                               !.proto[p].user.groups = @ \ {g}])

(***************************************************************************)
(* server.py: registration.                                                *)
(***************************************************************************)
\* the names bound at module level in server.py (its imports, definitions
\* and the names config.py exports)
ServerGlobals ==
    {"time", "asyncio", "re", "randint", "crypt", "mksalt", "compare_digest",
     "ssl", "logging", "User", "Group", "UserStorage", "parser", "logger",
     "valid_handle", "UNREG", "SIGNON", "DCPServer", "server", "DCPProto",
     "ctx", "loop", "coro", "_server", "servname", "listen", "servpass",
     "log_level"}

\* a name that is no local of the function resolves among the module's globals
GlobalDefined(name) == name \in ServerGlobals

\* the signon frame user_enter sends
SignonKval ==
    <<[k |-> K_name, v |-> <<S_servname>>],
      [k |-> K_time, v |-> <<S_now>>],
      [k |-> K_version, v |-> <<V_product, V_release>>],
      [k |-> K_options, v |-> <<>>]>>

\* DCPServer.user_enter; sched is the value randint returns in ping_timeout
user_enter(w, p, name, gecos, acls, properties, options, sched) ==
    Try([w EXCEPT !.proto[p].user = User(name, gecos, acls, properties, options),
                  !.users = MapPut(@, name, p)],
        LAMBDA w1 :
    IF "signon" \notin w1.proto[p].callbacks THEN Raise(w1, "KeyError")
    ELSE
    Try(User_send([cancel(w1, p, "signon") EXCEPT !.proto[p].callbacks = @ \ {"signon"}],
                  p, Server, UserRef(p), S_signon, SignonKval),
        LAMBDA w2 :
    \* self.cmd_motd(user, line): user_enter has no local `line`
    IF ~GlobalDefined("line") THEN Raise(w2, "NameError")
    ELSE
    Try(cmd_motd(w2, p, NoFrame),
        LAMBDA w3 :
    ping_timeout([w3 EXCEPT !.proto[p].user.timeout = FALSE], p, sched))))

\* the loop of user_exit over list(user.groups)
RECURSIVE leave_groups(_, _, _)
leave_groups(w, p, gs) ==
    IF gs = {} \/ w.exc # "" THEN w
    ELSE LET g == CHOOSE x \in gs : TRUE
         IN leave_groups(Group_member_del(w, g, p, <<>>), p, gs \ {g})

\* the loop of user_exit over user.proto.callbacks.values()
RECURSIVE cancel_all(_, _, _)
cancel_all(w, p, names) ==
    IF names = {} THEN w
    ELSE LET n == CHOOSE x \in names : TRUE
         IN cancel_all(cancel(w, p, n), p, names \ {n})

\* DCPServer.user_exit(proto.user)
user_exit(w, p) ==
    IF ~HasUser(w.proto[p]) THEN w
    ELSE IF w.proto[p].user.name \notin DOMAIN w.users THEN Raise(w, "KeyError")
    ELSE Try(leave_groups([w EXCEPT !.users = MapDel(@, w.proto[p].user.name)],
                          p, w.proto[p].user.groups),
             LAMBDA w1 : cancel_all(w1, p, w1.proto[p].callbacks))

\* the characters '#!=&$,?*[]' and '=$,?*[]' of the valid_handle pattern
HandleFirstExcluded == {35, 33, 61, 38, 36, 44, 63, 42, 91, 93}
HandleRestExcluded == {61, 36, 44, 63, 42, 91, 93}

\* valid_handle.match(name) is not None
valid_handle(name) ==
    /\ Len(name) >= 2
    /\ name[1] \notin HandleFirstExcluded
    /\ \A i \in 2..Len(name) : name[i] \notin HandleRestExcluded

\* line.kval.get(key, [default])[0]; every list of a parsed kval has an element
KvalFirst(kval, key, default) == KvalGet(kval, key, <<default>>)[1]

\* the checks of cmd_signon in their order: the error it reports (reason <<>>: all passed)
signon_verdict(w, line) ==
    LET name == KvalFirst(line.kval, K_handle, None)
        uinfo == UserStorage_get(w, name)
    IN IF servpass # None /\ KvalFirst(line.kval, K_servpass, None) # servpass
       THEN [reason |-> R_BadServpass, fatal |-> TRUE, ext |-> <<>>]
       ELSE IF name = None
       THEN [reason |-> R_NoHandle, fatal |-> TRUE, ext |-> <<>>]
       ELSE IF ~valid_handle(name)
       THEN [reason |-> R_InvalidHandle, fatal |-> TRUE, ext |-> <<[k |-> K_handle, v |-> <<name>>]>>]
       ELSE IF Len(name) > HandleMax
       THEN [reason |-> R_HandleTooLong, fatal |-> TRUE, ext |-> <<[k |-> K_handle, v |-> <<name>>]>>]
       ELSE IF ~UserStorage_has(w, name)
       THEN [reason |-> R_NotInStore, fatal |-> FALSE, ext |-> <<[k |-> K_handle, v |-> <<name>>]>>]
       ELSE IF Crypt(KvalFirst(line.kval, K_password, S_star), uinfo.hash) # uinfo.hash
       THEN [reason |-> R_InvalidPassword, fatal |-> TRUE, ext |-> <<>>]
       ELSE IF name \in DOMAIN w.users
       THEN [reason |-> R_NoMultiple, fatal |-> TRUE, ext |-> <<[k |-> K_handle, v |-> <<name>>]>>]
       ELSE [reason |-> <<>>, fatal |-> FALSE, ext |-> <<>>]

\* DCPServer.cmd_signon
cmd_signon(w, p, line, sched) ==
    LET v == signon_verdict(w, line)
        name == KvalFirst(line.kval, K_handle, None)
        uinfo == UserStorage_get(w, name)
    IN IF v.reason # <<>>
       THEN DCPServer_error(w, p, line.command, v.reason, v.fatal, v.ext)
       ELSE user_enter(w, p, name, uinfo.gecos, uinfo.acls, uinfo.properties,
                       KvalGet(line.kval, K_options, <<>>), sched)

\* the checks of cmd_register in their order: the error it reports (reason <<>>: all passed)
register_verdict(w, line) ==
    LET name == KvalFirst(line.kval, K_handle, None)
        gecos == KvalFirst(line.kval, K_gecos, name)
        password == KvalFirst(line.kval, K_password, None)
    IN IF servpass # None /\ KvalFirst(line.kval, K_servpass, None) # servpass
       THEN [reason |-> R_BadServpass, fatal |-> TRUE, ext |-> <<>>]
       ELSE IF name = None
       THEN [reason |-> R_NoHandle, fatal |-> TRUE, ext |-> <<>>]
       ELSE IF ~valid_handle(name)
       THEN [reason |-> R_InvalidHandle, fatal |-> FALSE, ext |-> <<[k |-> K_handle, v |-> <<name>>]>>]
       ELSE IF Len(name) > HandleMax
       THEN [reason |-> R_HandleTooLong, fatal |-> FALSE, ext |-> <<[k |-> K_handle, v |-> <<name>>]>>]
       ELSE IF UserStorage_has(w, name)
       THEN [reason |-> R_AlreadyRegistered, fatal |-> FALSE, ext |-> <<[k |-> K_handle, v |-> <<name>>]>>]
       ELSE IF Len(gecos) > GecosMax
       THEN [reason |-> R_GecosTooLong, fatal |-> FALSE, ext |-> <<[k |-> K_gecos, v |-> <<gecos>>]>>]
       ELSE IF password = None \/ Len(password) < MinPassword
       THEN [reason |-> R_BadPassword, fatal |-> FALSE, ext |-> <<>>]
       ELSE [reason |-> <<>>, fatal |-> FALSE, ext |-> <<>>]

\* DCPServer.cmd_register; salt is the value mksalt returns
cmd_register(w, p, line, sched, salt) ==
    LET v == register_verdict(w, line)
        name == KvalFirst(line.kval, K_handle, None)
        gecos == KvalFirst(line.kval, K_gecos, name)
        password == Crypt(KvalFirst(line.kval, K_password, None), Hash(salt, None))
    IN IF v.reason # <<>>
       THEN DCPServer_error(w, p, line.command, v.reason, v.fatal, v.ext)
       ELSE
       Try(UserStorage_add(w, name, password, gecos, {}),
           LAMBDA w1 :
       Try(DCPProto_send(w1, p, Server, Nobody, line.command,
                         <<[k |-> K_handle, v |-> <<name>>],
                           [k |-> K_gecos, v |-> <<gecos>>],
                           [k |-> K_message, v |-> <<R_RegOk>>]>>),
           LAMBDA w2 :
       user_enter(w2, p, name, gecos, {}, {}, KvalGet(line.kval, K_options, <<>>), sched)))

(***************************************************************************)
(* server.py: the commands of registered users.                            *)
(***************************************************************************)
\* a < b for strings
LexLess(a, b) ==
    \E i \in 1..(Len(a) + 1) :
        /\ \A j \in 1..(i - 1) : j <= Len(b) /\ a[j] = b[j]
        /\ i <= Len(b)
        /\ (i > Len(a) \/ a[i] < b[i])

\* sorted(set of strings)
RECURSIVE Sorted(_)
Sorted(S) ==
    IF S = {} THEN <<>>
    ELSE LET m == CHOOSE x \in S : \A y \in S \ {x} : LexLess(x, y)
         IN <<m>> \o Sorted(S \ {m})

\* DCPServer.cmd_message
cmd_message(w, p, line) ==
    LET target == line.target
        message == KvalGet(line.kval, K_body, <<S_empty>>)
        ext == <<[k |-> K_target, v |-> <<target>>]>>
    IN IF target = S_star
       THEN DCPServer_error(w, p, line.command, R_NoValidTarget, FALSE, <<>>)
       ELSE IF StartsWith(target, <<61>>) \/ StartsWith(target, <<38>>)
       THEN DCPServer_error(w, p, line.command, R_NoServers, FALSE, ext)
       ELSE IF StartsWith(target, <<35>>)
       THEN IF target \notin DOMAIN w.groups
            THEN DCPServer_error(w, p, line.command, R_NoSuchGroup, FALSE, ext)
            ELSE Broadcast(w, w.groups[target].users \ {p}, UserRef(p), GroupRef(target),
                           S_message, <<[k |-> K_body, v |-> message]>>)
       ELSE IF target \notin DOMAIN w.users
            THEN DCPServer_error(w, p, line.command, R_NoSuchUser, FALSE, ext)
            ELSE User_send(w, w.users[target], UserRef(p), UserRef(w.users[target]),
                           S_message, <<[k |-> K_body, v |-> message]>>)

\* DCPServer.cmd_whois: from line 324 on, `user` is the looked-up target
cmd_whois(w, p, line) ==
    LET target == line.target IN
    IF target = S_star \/ StartsWith(target, <<61>>) \/ StartsWith(target, <<35>>)
    THEN DCPServer_error(w, p, line.command, R_NoValidTarget, FALSE, <<>>)
    ELSE IF target \notin DOMAIN w.users
    THEN DCPServer_error(w, p, line.command, R_NoSuchUser, FALSE, <<>>)
    ELSE LET q == w.users[target]
             user == w.proto[q].user
             auspex == A_user_auspex \in user.acl
             shown == {g \in user.groups :
                          ~(P_private \in w.groups[g].properties /\ ~auspex)}
             kval == <<[k |-> K_handle, v |-> <<user.name>>],
                       [k |-> K_gecos, v |-> <<user.gecos>>]>>
                     \o (IF auspex THEN <<[k |-> K_acl, v |-> Sorted(user.acl)]>> ELSE <<>>)
                     \o (IF user.groups # {} THEN <<[k |-> K_groups, v |-> Sorted(shown)]>> ELSE <<>>)
         IN User_send(w, q, Server, UserRef(q), S_whois, kval)

\* the rest of cmd_group_enter once self.groups has the group
group_enter_existing(w, p, line) ==
    IF line.target \in w.proto[p].user.groups
    THEN IF p \notin w.groups[line.target].users THEN Raise(w, "AssertionError")
         ELSE DCPServer_error(w, p, line.command, R_AlreadyEntered, FALSE,
                              <<[k |-> K_target, v |-> <<line.target>>]>>)
    ELSE Group_member_add(w, line.target, p, KvalFirst(line.kval, K_reason, S_empty))

\* DCPServer.cmd_group_enter
cmd_group_enter(w, p, line) ==
    LET target == line.target
        ext == <<[k |-> K_target, v |-> <<target>>]>>
    IN IF target = S_star
       THEN DCPServer_error(w, p, line.command, R_NoValidTarget, FALSE, <<>>)
       ELSE IF ~StartsWith(target, <<35>>)
       THEN DCPServer_error(w, p, line.command, R_InvalidGroup, FALSE, ext)
       ELSE IF Len(target) > GroupMax
       THEN DCPServer_error(w, p, line.command, R_GroupTooLong, FALSE, ext)
       ELSE group_enter_existing(
                IF target \in DOMAIN w.groups THEN w
                ELSE [w EXCEPT !.groups = MapPut(@, target, Group(target))], p, line)

\* DCPServer.cmd_group_exit
cmd_group_exit(w, p, line) ==
    LET target == line.target
        ext == <<[k |-> K_target, v |-> <<target>>]>>
    IN IF target = S_star
       THEN DCPServer_error(w, p, line.command, R_NoValidTarget, FALSE, <<>>)
       ELSE IF ~StartsWith(target, <<35>>) \/ target \notin DOMAIN w.groups
       THEN DCPServer_error(w, p, line.command, R_InvalidGroup, FALSE, ext)
       ELSE IF target \notin w.proto[p].user.groups
       THEN IF p \in w.groups[target].users THEN Raise(w, "AssertionError")
            ELSE DCPServer_error(w, p, line.command, R_NotInGroup, FALSE, ext)
       ELSE Group_member_del(w, target, p, KvalGet(line.kval, K_reason, <<S_empty>>))

(***************************************************************************)
(* server.py: the dispatcher.                                              *)
(***************************************************************************)
\* the cmd_* methods of DCPServer, by the name after 'cmd_'
UnregCommands == {ReplaceHyphen(S_signon), ReplaceHyphen(S_register)}
SignonCommands == {ReplaceHyphen(S_message), ReplaceHyphen(S_motd), ReplaceHyphen(S_whois),
                   ReplaceHyphen(S_group_enter), ReplaceHyphen(S_group_exit),
                   ReplaceHyphen(S_pong)}

\* func.__annotations__.get('return', SIGNON)
Annotation(command) == IF command \in UnregCommands THEN UNREG ELSE SIGNON

\* func(proto_or_user, line)
CallHandler(w, p, command, line, sched, salt) ==
    CASE command = ReplaceHyphen(S_signon) -> cmd_signon(w, p, line, sched)
      [] command = ReplaceHyphen(S_register) -> cmd_register(w, p, line, sched, salt)
      [] command = ReplaceHyphen(S_message) -> cmd_message(w, p, line)
      [] command = ReplaceHyphen(S_motd) -> cmd_motd(w, p, line)
      [] command = ReplaceHyphen(S_whois) -> cmd_whois(w, p, line)
      [] command = ReplaceHyphen(S_group_enter) -> cmd_group_enter(w, p, line)
      [] command = ReplaceHyphen(S_group_exit) -> cmd_group_exit(w, p, line)
      [] command = ReplaceHyphen(S_pong) -> cmd_pong(w, p, line)

\* the except clauses of DCPServer.process around func(proto_or_user, line):
\* the world after them, and whether the loop body left process
after_handler(w, p, line) ==
    IF w.exc = "" THEN [w |-> w, ret |-> FALSE]
    ELSE IF w.exc \in {"UserError", "GroupError"} /\ ~GlobalDefined("traceback")
    THEN \* the except block names traceback, which server.py never imports:
         \* the NameError leaves process
         [w |-> Raise(w, "NameError"), ret |-> TRUE]
    ELSE [w |-> DCPServer_error(Caught(w), p, line.command, R_InternalProcess, TRUE, <<>>),
          ret |-> FALSE]

\* the body of the loop of DCPServer.process for one line: the world after
\* it, and whether the body returned from process
process_line(w, p, line, sched, salt) ==
    LET command == ReplaceHyphen(line.command) IN
    IF command \notin UnregCommands \cup SignonCommands
    THEN [w |-> DCPServer_error(w, p, line.command, R_NoSuchCommand, FALSE, <<>>), ret |-> TRUE]
    ELSE IF Annotation(command) = SIGNON /\ ~HasUser(w.proto[p])
    THEN [w |-> DCPServer_error(w, p, line.command, R_NotRegistered, FALSE, <<>>), ret |-> TRUE]
    ELSE IF Annotation(command) = UNREG /\ HasUser(w.proto[p])
    THEN [w |-> DCPServer_error(w, p, line.command, R_OnlyBeforeRegistration, FALSE, <<>>),
          ret |-> TRUE]
    ELSE after_handler(CallHandler(w, p, command, line, sched, salt), p, line)

\* the loop of DCPServer.process
RECURSIVE process_lines(_, _, _, _, _)
loop_step(r, p, lines, sched, salt) ==
    IF r.ret THEN r.w ELSE process_lines(r.w, p, lines, sched, salt)

process_lines(w, p, lines, sched, salt) ==
    IF lines = <<>> \/ w.exc # "" THEN w
    ELSE loop_step(process_line(w, p, Head(lines), sched, salt), p, Tail(lines), sched, salt)

\* the attributes of class Frame and of its base BaseFrame
FrameAttributes ==
    {"__init__", "from_other", "_generic_len", "__len__", "fit", "terminator",
     "parse", "__bytes__", "len_kv", "__repr__"}

\* iter(obj) succeeds on an object whose class has __iter__ or __getitem__
Iterable(attributes) == "__iter__" \in attributes \/ "__getitem__" \in attributes

\* DCPServer.process: Frame.parse returns one Frame, and the for statement
\* calls iter() on it
process(w, p, data, sched, salt) ==
    LET parsed == Frame_parse(data) IN
    IF parsed.err # "" THEN Raise(w, parsed.err)
    ELSE IF ~Iterable(FrameAttributes) THEN Raise(w, "TypeError")
    ELSE process_lines(w, p, <<parsed.frame>>, sched, salt)

(***************************************************************************)
(* server.py: DCPProto, the connection.                                    *)
(***************************************************************************)
\* the subclasses of ParserError the codec raises
ParserErrors ==
    {"ParserIncompleteError", "ParserSizeError", "ParserInvalidError", "ParserValueError"}

\* what data_received hands to process from the buffer and the new data:
\* <<>> when it only buffers
ProcessInput(buf, data) ==
    LET all == buf \o data IN
    IF EndsWith(all, Terminator) THEN all
    ELSE LET parts == RPartition(all) IN
         IF parts[2] # <<>> THEN parts[1] \o parts[2] ELSE <<>>

\* what data_received leaves in self.__buf.  Input that ends in the
\* terminator leaves it as it was.  Otherwise `data, sep, self.__buf =
\* data.rpartition(...)` stores the tail, and when there is no separator the
\* else branch stores `data`, by then the empty head of the partition.
NextBuf(buf, data) ==
    LET all == buf \o data IN
    IF EndsWith(all, Terminator) THEN buf
    ELSE IF RPartition(all)[2] # <<>> THEN RPartition(all)[3]
    ELSE RPartition(all)[1]

\* the except clauses of DCPProto.data_received around server.process
process_guarded(w, p) ==
    IF w.exc = "" THEN w
    ELSE IF w.exc \in ParserErrors
    THEN \* error('*', 'Parser failure', {...}, False): the dict is the third
         \* positional argument, fatal, and False is extargs
         Caught(DCPProto_error(Caught(w), p, S_star, R_ParserFailure, TRUE, <<>>))
    ELSE Caught(DCPProto_error(Caught(w), p, S_star, R_InternalData, TRUE, <<>>))

\* DCPProto.data_received
data_received(w, p, data, sched, salt) ==
    LET input == ProcessInput(w.proto[p].buf, data)
        buffered == [w EXCEPT !.proto[p].buf = NextBuf(w.proto[p].buf, data)]
    IN IF input = <<>> THEN buffered
       ELSE process_guarded(process(buffered, p, input, sched, salt), p)

\* DCPProto.connection_made
connection_made(w, p) ==
    call_later([w EXCEPT !.proto[p].phase = "open"], p, "signon", SignonDelay)

\* DCPProto.connection_lost
connection_lost(w, p) ==
    Caught(user_exit([w EXCEPT !.proto[p].phase = "lost"], p))

\* the event loop running a handle that call_later scheduled
run_callback(w, p, name, sched) ==
    Caught(IF name = "signon"
           THEN conn_timeout([w EXCEPT !.proto[p].timers[name].state = "fired"], p)
           ELSE ping_timeout([w EXCEPT !.proto[p].timers[name].state = "fired"], p, sched))

(***************************************************************************)
(* The environment: the deployment's configuration and store, and what     *)
(* the clients send.                                                       *)
(***************************************************************************)
\* config.servpass: None as shipped, or a password the operator sets
ServpassChoices == {None, PW_secret}

\* what the MOTD loader leaves in self.motd: nothing when motd.txt is
\* absent, else the blocks of lines
MotdChoices == {<<>>, <<<<S_hi, S_bogus>>>>}

\* the credential store on disk: alice, with the hash of her password
StoreInit == (H_alice :> [hash |-> Hash(1, PW_hunter2), gecos |-> G_alice,
                          acls |-> {}, properties |-> {}])

\* a frame as a client puts it on the wire
Wire(command, target, kval) == Frame_bytes(Frame(S_star, target, command, kval)).bytes

Credentials(handle, password) ==
    <<[k |-> K_handle, v |-> <<handle>>], [k |-> K_password, v |-> <<password>>]>>

WithServpass(kval, sp) == kval \o <<[k |-> K_servpass, v |-> <<sp>>]>>

B_signon_ok == Wire(S_signon, S_star, Credentials(H_alice, PW_hunter2))
B_signon_bad == Wire(S_signon, S_star, Credentials(H_alice, PW_wrong))
B_signon_sp == Wire(S_signon, S_star, WithServpass(Credentials(H_alice, PW_hunter2), PW_secret))
B_register == Wire(S_register, S_star, Credentials(H_bob, PW_hunter2))
B_message == Wire(S_message, H_alice, <<[k |-> K_body, v |-> <<S_hi>>]>>)
B_pong == Wire(S_pong, S_star, <<>>)
B_bogus == Wire(S_bogus, S_star, <<>>)
\* a frame that declares a length of 1500
B_oversize == <<5, 220, 0>> \o DropFirst(B_pong, 3)
\* a terminator alone
B_short == Terminator

\* where the model cuts a frame that arrives in two reads
CutAt == 12

\* the reads the model delivers: whole frames, a frame in two reads, and a
\* frame followed by the first bytes of the next
Chunks ==
    {B_signon_ok, B_signon_bad, B_signon_sp, B_register, B_message, B_bogus,
     B_oversize, B_short,
     SubSeq(B_signon_ok, 1, CutAt), DropFirst(B_signon_ok, CutAt),
     B_bogus \o SubSeq(B_pong, 1, 5)}

(***************************************************************************)
(* The specification.                                                      *)
(***************************************************************************)
Install(w) ==
    /\ users' = w.users
    /\ groups' = w.groups
    /\ user_store' = w.user_store
    /\ proto' = w.proto

Init ==
    /\ servpass \in ServpassChoices
    /\ motd \in MotdChoices
    /\ users = <<>>
    /\ groups = <<>>
    /\ user_store = StoreInit
    /\ proto = [s \in Sessions |-> NewProto]

\* the acceptor creates the session's transport
ConnectionMade(s) ==
    /\ proto[s].phase = "new"
    /\ Install(connection_made(World, s))
    /\ UNCHANGED <<servpass, motd>>

\* the transport delivers a read to a session it has not closed
DataReceived(s, chunk) ==
    /\ proto[s].phase = "open"
    /\ Len(NextBuf(proto[s].buf, chunk)) <= MaxBuf
    /\ \E sched \in PingDelays, salt \in Salts :
           Install(data_received(World, s, chunk, sched, salt))
    /\ UNCHANGED <<servpass, motd>>

\* the event loop runs a timer that is due
RunCallback(s, name) ==
    /\ proto[s].timers[name].state = "armed"
    /\ \E sched \in PingDelays : Install(run_callback(World, s, name, sched))
    /\ UNCHANGED <<servpass, motd>>

\* the transport reports the connection lost: the peer went away or the
\* server closed it
ConnectionLost(s) ==
    /\ proto[s].phase \in {"open", "closing"}
    /\ Install(connection_lost(World, s))
    /\ UNCHANGED <<servpass, motd>>

Next ==
    \/ \E s \in Sessions : ConnectionMade(s)
    \/ \E s \in Sessions, chunk \in Chunks : DataReceived(s, chunk)
    \/ \E s \in Sessions, name \in {"signon", "ping"} : RunCallback(s, name)
    \/ \E s \in Sessions : ConnectionLost(s)

Spec == Init /\ [][Next]_vars

(***************************************************************************)
(* Properties.  A step is identified by the action it satisfies; the       *)
(* operators below name what a data_received step was handed and what a    *)
(* step appended to the frames the session's transport was given.          *)
(***************************************************************************)
\* the line a read hands to the dispatcher once the buffer is prepended
Line(s, chunk) == Frame_parse(ProcessInput(proto[s].buf, chunk)).frame

\* s takes the step data_received(chunk) and the read completes one
\* well-formed frame
ReceivesFrame(s, chunk) ==
    /\ DataReceived(s, chunk)
    /\ ProcessInput(proto[s].buf, chunk) # <<>>
    /\ Frame_parse(ProcessInput(proto[s].buf, chunk)).err = ""

\* the frames the step wrote to the session
Written(s) == SubSeq(proto'[s].out, Len(proto[s].out) + 1, Len(proto'[s].out))

\* f is an error frame for `command` with `reason`
IsError(f, command, reason) ==
    /\ f.command = S_error
    /\ KvalGet(f.kval, K_command, <<>>) = <<command>>
    /\ KvalGet(f.kval, K_reason, <<>>) = <<reason>>

\* the frame is a signon or a register that passes every check of its handler
PassesChecks(line) ==
    \/ line.command = S_signon /\ signon_verdict(World, line).reason = <<>>
    \/ line.command = S_register /\ register_verdict(World, line).reason = <<>>

\* C1: when a session whose user is unset receives a frame whose command
\* requires registration, the step writes exactly one error frame, for that
\* command and with reason 'You are not registered', the connection stays
\* open, and users, groups and the session's user are unchanged.
C1_NotRegisteredIsNonFatal ==
    [][\A s \in Sessions, chunk \in Chunks :
         (/\ ReceivesFrame(s, chunk)
          /\ ~HasUser(proto[s])
          /\ ReplaceHyphen(Line(s, chunk).command) \in SignonCommands)
         => (/\ Len(Written(s)) = 1
             /\ IsError(Written(s)[1].frame, Line(s, chunk).command, R_NotRegistered)
             /\ proto'[s].phase = "open"
             /\ users' = users
             /\ groups' = groups
             /\ proto'[s].user = proto[s].user)]_vars

\* C3: when an unregistered session receives a signon or register frame
\* that passes all of its checks, the step leaves the session with its
\* user set, the signon timer cancelled and removed from callbacks, a ping
\* timer armed, and the connection open.
C3_ChecksPassedRegisters ==
    [][\A s \in Sessions, chunk \in Chunks :
         (/\ ReceivesFrame(s, chunk)
          /\ ~HasUser(proto[s])
          /\ PassesChecks(Line(s, chunk)))
         => (/\ HasUser(proto'[s])
             /\ proto'[s].timers.signon.state = "cancelled"
             /\ "signon" \notin proto'[s].callbacks
             /\ proto'[s].timers.ping.state = "armed"
             /\ proto'[s].phase = "open")]_vars

\* the motd frames of a signon: one empty frame without a MOTD, else one a block
MotdCount == IF motd = <<>> THEN 1 ELSE Len(motd)

\* f is the i-th motd frame of a signon
IsMotdPart(f, i) ==
    /\ f.command = S_motd
    /\ IF motd = <<>> THEN f.kval = <<>>
       ELSE /\ KvalGet(f.kval, K_part, <<>>) = <<Str(i)>>
            /\ KvalGet(f.kval, K_total, <<>>) = <<Str(Len(motd))>>

\* C4: when a signon passes all of its checks, the frames the step writes
\* to the session begin with the signon frame, from '=<servname>' to the
\* handle, followed by the motd frames in ascending part order, with no
\* error frame among them.
C4_SignonThenMotd ==
    [][\A s \in Sessions, chunk \in Chunks :
         (/\ ReceivesFrame(s, chunk)
          /\ ~HasUser(proto[s])
          /\ Line(s, chunk).command = S_signon
          /\ PassesChecks(Line(s, chunk)))
         => (/\ Len(Written(s)) >= 1 + MotdCount
             /\ Written(s)[1].frame.command = S_signon
             /\ Written(s)[1].frame.source = <<61>> \o S_servname
             /\ Written(s)[1].frame.target = KvalFirst(Line(s, chunk).kval, K_handle, None)
             /\ \A i \in 1..MotdCount : IsMotdPart(Written(s)[1 + i].frame, i))]_vars

\* C5: when a signon names a handle of the credential store with a
\* password whose crypt differs from the stored hash, the step writes
\* exactly one error frame, for command 'signon' with reason 'Invalid
\* password', the transport is closed, and users and the session's user
\* are unchanged.
C5_InvalidPasswordIsFatal ==
    [][\A s \in Sessions, chunk \in Chunks :
         (/\ ReceivesFrame(s, chunk)
          /\ ~HasUser(proto[s])
          /\ Line(s, chunk).command = S_signon
          /\ signon_verdict(World, Line(s, chunk)).reason = R_InvalidPassword)
         => (/\ Len(Written(s)) = 1
             /\ IsError(Written(s)[1].frame, S_signon, R_InvalidPassword)
             /\ proto'[s].phase = "closing"
             /\ users' = users
             /\ proto'[s].user = proto[s].user)]_vars

\* C8: accepting a connection arms its signon timer, with the signon
\* delay, under callbacks['signon']; when that timer fires for a session
\* whose user is unset, the step writes one error frame with reason 'Timed
\* out' and the transport is no longer open; when it fires for a session
\* whose user is set, the step writes nothing and leaves the transport as
\* it was.
C8_SignonTimer ==
    [][\A s \in Sessions :
         /\ ConnectionMade(s)
            => (/\ proto'[s].timers.signon = Timer("armed", SignonDelay)
                /\ "signon" \in proto'[s].callbacks)
         /\ RunCallback(s, "signon")
            => IF HasUser(proto[s])
               THEN /\ proto'[s].out = proto[s].out
                    /\ proto'[s].phase = proto[s].phase
               ELSE /\ Len(Written(s)) = 1
                    /\ IsError(Written(s)[1].frame, S_star, R_TimedOut)
                    /\ proto'[s].phase # "open"]_vars

\* C8 witness: a session that never registered has had its signon timer
\* fire while its transport was open: the one frame it was sent is the
\* 'Timed out' error, and the transport is closing.
C8_TimedOutSession ==
    \E s \in Sessions :
        /\ ~HasUser(proto[s])
        /\ proto[s].timers.signon.state = "fired"
        /\ proto[s].phase = "closing"
        /\ Len(proto[s].out) = 1
        /\ proto[s].out[1].live
        /\ IsError(proto[s].out[1].frame, S_star, R_TimedOut)

\* C10: when a signon or register passes all of its checks, the step
\* writes no ping frame and leaves the first ping tick scheduled, with a
\* delay of 4500 to 6000 centiseconds; a ping tick that writes a ping
\* schedules the next one with a delay in the same range.
C10_FirstPingIsScheduled ==
    [][\A s \in Sessions :
         /\ \A chunk \in Chunks :
              (/\ ReceivesFrame(s, chunk)
               /\ ~HasUser(proto[s])
               /\ PassesChecks(Line(s, chunk)))
              => (/\ \A i \in 1..Len(Written(s)) : Written(s)[i].frame.command # S_ping
                  /\ proto'[s].timers.ping.state = "armed"
                  /\ proto'[s].timers.ping.delay \in PingDelayMin..PingDelayMax)
         /\ (RunCallback(s, "ping") /\ proto'[s].timers.ping.state = "armed")
            => proto'[s].timers.ping.delay \in PingDelayMin..PingDelayMax]_vars

\* C11: when a session's connection is lost, no timer of that session
\* remains scheduled afterwards, whether or not the session had registered.
C11_LostCancelsTimers ==
    [][\A s \in Sessions :
         ConnectionLost(s)
         => \A name \in {"signon", "ping"} : proto'[s].timers[name].state # "armed"]_vars

\* C12: once a session's transport is closing or its connection is lost,
\* no step hands another frame to that transport, and no timer of that
\* session changes users or groups.
C12_NoEffectAfterClose ==
    [][\A s \in Sessions :
         proto[s].phase \in {"closing", "lost"}
         => /\ proto'[s].out = proto[s].out
            /\ \A name \in {"signon", "ping"} :
                 RunCallback(s, name) => (users' = users /\ groups' = groups)]_vars

\* str(e) of the error Frame.parse raises: the message it is raised with
ParserMessage(err) ==
    CASE err = "ParserIncompleteError" -> \* 'Incomplete frame'
             <<73, 110, 99, 111, 109, 112, 108, 101, 116, 101, 32, 102, 114, 97, 109, 101>>
      [] err = "ParserSizeError" -> \* 'Frame is too large for the wire'
             <<70, 114, 97, 109, 101, 32, 105, 115, 32, 116, 111, 111, 32, 108, 97, 114, 103, 101, 32, 102, 111, 114, 32, 116, 104, 101, 32, 119, 105, 114, 101>>
      [] err = "ParserInvalidError" -> \* 'Invalid DCP frame'
             <<73, 110, 118, 97, 108, 105, 100, 32, 68, 67, 80, 32, 102, 114, 97, 109, 101>>
      [] err = "ParserValueError" -> \* 'Duplicate value not allowed'
             <<68, 117, 112, 108, 105, 99, 97, 116, 101, 32, 118, 97, 108, 117, 101, 32, 110, 111, 116, 32, 97, 108, 108, 111, 119, 101, 100>>

\* C16: when the bytes a read completes fail to decode with an oversize or
\* invalid-frame error, the step writes exactly one error frame whose
\* reason is the message of the codec's error, and the transport stays
\* open.
C16_ParserErrorIsNonFatal ==
    [][\A s \in Sessions, chunk \in Chunks :
         (/\ DataReceived(s, chunk)
          /\ ProcessInput(proto[s].buf, chunk) # <<>>
          /\ Frame_parse(ProcessInput(proto[s].buf, chunk)).err
                 \in {"ParserSizeError", "ParserInvalidError"})
         => (/\ Len(Written(s)) = 1
             /\ Written(s)[1].frame.command = S_error
             /\ KvalGet(Written(s)[1].frame.kval, K_reason, <<>>)
                    = <<ParserMessage(Frame_parse(ProcessInput(proto[s].buf, chunk)).err)>>
             /\ proto'[s].phase = "open")]_vars

\* users[S.user.name] is S's User, for a session S of world w with a user
UsersMapHolds(w, s) ==
    HasUser(w.proto[s])
    => /\ w.proto[s].user.name \in DOMAIN w.users
       /\ w.users[w.proto[s].user.name] = s

C17_HandlerFailureIsNonFatal ==
    \A s \in Sessions :
        proto[s].phase = "open"
        => /\ after_handler(Raise(World, "KeyError"), s,
                            Frame(S_star, H_alice, S_message, <<>>)).w.exc = ""
           /\ Len(after_handler(Raise(World, "KeyError"), s,
                                Frame(S_star, H_alice, S_message, <<>>)).w.proto[s].out)
                  = Len(proto[s].out) + 1
           /\ after_handler(Raise(World, "KeyError"), s,
                            Frame(S_star, H_alice, S_message, <<>>)).w.proto[s].user
                  = proto[s].user
           /\ after_handler(Raise(World, "KeyError"), s,
                            Frame(S_star, H_alice, S_message, <<>>)).w.proto[s].phase = "open"

\* the reason of the reply that shows an unregistered session's frame was
\* dispatched: its command has no handler, or one that requires registration
RejectReason(command) ==
    IF ReplaceHyphen(command) \in SignonCommands THEN R_NotRegistered ELSE R_NoSuchCommand

\* C18: a complete frame a session receives is dispatched exactly once.
\* For an unregistered session and a frame that is neither signon nor
\* register the dispatch shows as exactly one reply, the non-fatal error
\* 'No such command' or 'You are not registered' for that frame's command,
\* after which the session is open for the frames that follow.
C18_FrameIsDispatchedOnce ==
    [][\A s \in Sessions, chunk \in Chunks :
         (/\ ReceivesFrame(s, chunk)
          /\ ~HasUser(proto[s])
          /\ ReplaceHyphen(Line(s, chunk).command) \notin UnregCommands)
         => (/\ Len(Written(s)) = 1
             /\ IsError(Written(s)[1].frame, Line(s, chunk).command,
                        RejectReason(Line(s, chunk).command))
             /\ proto'[s].phase = "open")]_vars

\* frames of the kinds the round trip is claimed for: no kval, one value,
\* an empty-string value, an empty value list, two values under one key
CodecFrames ==
    {Frame(S_star, H_alice, S_message, kval) :
        kval \in {<<>>,
                  <<[k |-> K_body, v |-> <<S_hi>>]>>,
                  <<[k |-> K_body, v |-> <<S_empty>>]>>,
                  <<[k |-> K_body, v |-> <<>>]>>,
                  <<[k |-> K_body, v |-> <<S_hi, S_bogus>>]>>}}

\* encoding f succeeds and decoding the bytes gives f back
RoundTrips(f) ==
    /\ Frame_bytes(f).err = ""
    /\ Frame_parse(Frame_bytes(f).bytes).err = ""
    /\ Frame_parse(Frame_bytes(f).bytes).frame = f

\* C19: every frame within the size limit survives the binary round trip:
\* the frames of CodecFrames, and every frame the server has encoded for a
\* session.
C19_RoundTrip ==
    /\ \A f \in CodecFrames : RoundTrips(f)
    /\ \A s \in Sessions : \A i \in 1..Len(proto[s].out) : RoundTrips(proto[s].out[i].frame)

\* a well-formed frame of MAXFRAME + 13 bytes, from 'a' to 'b' with command
\* 'c' and one value of MAXFRAME bytes under the key 'k', whose two length
\* bytes declare `declared`
LongFrame(declared) ==
    <<declared \div 256, declared % 256, 0, 97, 0, 98, 0, 99, 0, 107, 0>>
        \o [i \in 1..MAXFRAME |-> 118] \o Terminator

\* the lengths the prefix declares: far too small, the limit, the true length
DeclaredLengths == {10, MAXFRAME, MAXFRAME + 13}

\* C20: the decoder answers every input longer than MAXFRAME bytes with
\* the oversize error, whatever length the prefix declares: stated of what
\* a session hands to the decoder when a long frame arrives after what it
\* has buffered.
C20_LongInputIsOversize ==
    \A s \in Sessions, declared \in DeclaredLengths :
        Len(ProcessInput(proto[s].buf, LongFrame(declared))) > MAXFRAME
        => Frame_parse(ProcessInput(proto[s].buf, LongFrame(declared))).err
               = "ParserSizeError"

(***************************************************************************)
(* src/server/commands/acl.py: the handlers of acl-set and acl-del.  A     *)
(* check returns its verdict (ret, msg) next to the world it leaves.       *)
(***************************************************************************)
\* 'acl-set'
S_acl_set == <<97, 99, 108, 45, 115, 101, 116>>
\* 'acl-del'
S_acl_del == <<97, 99, 108, 45, 100, 101, 108>>
\* 'No permission to alter ACL'
R_NoPermission == <<78, 111, 32, 112, 101, 114, 109, 105, 115, 115, 105, 111, 110, 32, 116, 111, 32, 97, 108, 116, 101, 114, 32, 65, 67, 76>>
\* 'grant'
A_grant == <<103, 114, 97, 110, 116>>
\* 'group:grant'
A_group_grant == <<103, 114, 111, 117, 112, 58, 103, 114, 97, 110, 116>>
\* "Must be in group to alter ACL's in it"
R_MustBeInGroup == <<77, 117, 115, 116, 32, 98, 101, 32, 105, 110, 32, 103, 114, 111, 117, 112, 32, 116, 111, 32, 97, 108, 116, 101, 114, 32, 65, 67, 76, 39, 115, 32, 105, 110, 32, 105, 116>>

\* ACLBase.has_grant_group.  gtarget is the target group: `users` its
\* members and `acl` its ACL map, member -> tokens.  has_any and has_acl are
\* asked without naming a user, so they answer for the map as a whole.
ACLBase_has_grant_group(w, p, gtarget, acl) ==
    IF p \notin gtarget.users
    THEN [w |-> w, ret |-> FALSE, msg |-> R_MustBeInGroup]
    ELSE IF \E u \in DOMAIN gtarget.acl :
                gtarget.acl[u] \cap ({A_grant, A_grant \o <<58, 42>>}
                                     \cup {A_grant \o <<58>> \o acl[i] : i \in 1..Len(acl)}) # {}
    THEN [w |-> w, ret |-> TRUE, msg |-> None]
    ELSE IF ~ \E u \in DOMAIN gtarget.acl : A_group_grant \in gtarget.acl[u]
    THEN [w |-> w, ret |-> FALSE, msg |-> R_NoPermission]
    ELSE [w |-> w, ret |-> TRUE, msg |-> None]

\* ACLBase.has_grant_user: after building check_grant the method reads
\* `gtarget`, a name it neither receives nor binds (line 33)
ACLBase_has_grant_user(w, p, utarget, acl) ==
    [w |-> Raise(w, "NameError"), ret |-> FALSE, msg |-> None]

\* ACLBase.has_grant: its first statement reads the local `target` before
\* any assignment to it (line 40)
ACLBase_has_grant(w, p, gtarget, utarget, acl) ==
    [w |-> Raise(w, "UnboundLocalError"), ret |-> FALSE, msg |-> None]

\* ACLSet.registered: its first statement calls ACLBase.registered(server,
\* user, proto, line) with three arguments (line 99)
ACLSet_registered(w, p, line) == Raise(w, "TypeError")

\* ACLDel.registered: the same call (line 174)
ACLDel_registered(w, p, line) == Raise(w, "TypeError")

(***************************************************************************)
(* Properties of the ACL handlers, of whois, register and the read buffer. *)
(***************************************************************************)
\* the world in which s is online as alice and t as bob, both without ACLs
AliceAndBob(s, t) ==
    Caught(user_enter(Caught(user_enter(World, s, H_alice, G_alice, {}, {}, <<>>,
                                        PingDelayMin)),
                      t, H_bob, G_alice, {}, {}, <<>>, PingDelayMin))

\* the request of alice to set or delete user:auspex on bob
AclRequest(command) ==
    Frame(H_alice, H_bob, command, <<[k |-> K_acl, v |-> <<A_user_auspex>>]>>)

\* from w0 the handler wrote to s exactly one error frame, for `command`
\* with `reason`, left the connection of s open and the ACLs of t as they were
RefusedBy(w0, w1, s, t, command, reason) ==
    /\ w1.exc = ""
    /\ Len(w1.proto[s].out) = Len(w0.proto[s].out) + 1
    /\ IsError(w1.proto[s].out[Len(w1.proto[s].out)].frame, command, reason)
    /\ w1.proto[s].phase = "open"
    /\ w1.proto[t].user.acl = w0.proto[t].user.acl

\* C21: a user-scoped acl-set or acl-del of a requester that holds no
\* grant is refused: alice, who holds no ACL, asking to set or to delete
\* user:auspex on bob receives one non-fatal error with reason 'No
\* permission to alter ACL', and the ACL set of bob is unchanged; the
\* user-scoped check itself answers (False, 'No permission to alter ACL').
\* Stated of the handlers applied to two open sessions made alice and bob.
C21_NoGrantIsRefused ==
    \A s \in Sessions, t \in Sessions :
        (s # t /\ proto[s].phase = "open" /\ proto[t].phase = "open")
        => /\ ACLBase_has_grant_user(AliceAndBob(s, t), s, t, <<A_user_auspex>>)
                  = [w |-> AliceAndBob(s, t), ret |-> FALSE, msg |-> R_NoPermission]
           /\ RefusedBy(AliceAndBob(s, t),
                        ACLSet_registered(AliceAndBob(s, t), s, AclRequest(S_acl_set)),
                        s, t, S_acl_set, R_NoPermission)
           /\ RefusedBy(AliceAndBob(s, t),
                        ACLDel_registered(AliceAndBob(s, t), s, AclRequest(S_acl_del)),
                        s, t, S_acl_del, R_NoPermission)

\* w with the user of s holding the user-scoped ACLs `acls`
Holding(w, s, acls) == [w EXCEPT !.proto[s].user.acl = acls]

\* a group of bob, with alice too when `member`, whose ACL map gives alice `tokens`
GroupOf(s, t, member, tokens) ==
    [users |-> IF member THEN {s, t} ELSE {t}, acl |-> [u \in {s} |-> tokens]]

\* the rule of the claim: a member holding 'grant', 'grant:*' or
\* 'grant:<acl>' on the group, or a holder of 'group:grant' at user scope
MayAlterGroup(member, tokens, acls, acl) ==
    \/ /\ member
       /\ tokens \cap {A_grant, A_grant \o <<58, 42>>, A_grant \o <<58>> \o acl} # {}
    \/ A_group_grant \in acls

\* C22: a group-scoped ACL mutation is authorized exactly when the
\* requester is a member of the group and holds 'grant', 'grant:*' or
\* 'grant:<acl>' on it, or holds 'group:grant' at user scope.  Stated of the
\* check the handlers call, has_grant, and of the group check it delegates
\* to, for alice asking about the ACL 'private' on a group of bob: both
\* answer without failing, and their verdict is the rule's.
C22_GroupGrantRule ==
    \A s \in Sessions, t \in Sessions :
        (s # t /\ proto[s].phase = "open" /\ proto[t].phase = "open")
        => \A member \in BOOLEAN, acls \in {{}, {A_group_grant}},
              tokens \in {{}, {A_grant}, {A_grant \o <<58>> \o P_private}} :
             /\ ACLBase_has_grant(Holding(AliceAndBob(s, t), s, acls), s,
                                  GroupOf(s, t, member, tokens), t, <<P_private>>).w.exc = ""
             /\ ACLBase_has_grant(Holding(AliceAndBob(s, t), s, acls), s,
                                  GroupOf(s, t, member, tokens), t, <<P_private>>).ret
                    = MayAlterGroup(member, tokens, acls, P_private)
             /\ ACLBase_has_grant_group(Holding(AliceAndBob(s, t), s, acls), s,
                                        GroupOf(s, t, member, tokens), <<P_private>>).ret
                    = MayAlterGroup(member, tokens, acls, P_private)

\* the frames the operation that took w0 to w1 wrote to session q
WrittenBy(w0, w1, q) ==
    SubSeq(w1.proto[q].out, Len(w0.proto[q].out) + 1, Len(w1.proto[q].out))

\* alice asks for bob
WhoisRequest == Frame(H_alice, H_bob, S_whois, <<>>)

\* no frame written between w0 and w1, to any session, carries the key 'acl'
NoAclWritten(w0, w1) ==
    \A q \in Sessions : \A i \in 1..Len(WrittenBy(w0, w1, q)) :
        ~KvalHas(WrittenBy(w0, w1, q)[i].frame.kval, K_acl)

\* C23: a whois reply carries the target's 'acl' list only if the
\* requester holds user:auspex.  Stated of cmd_whois applied for alice, who
\* holds no ACL, asking for bob, in the run where bob holds no ACL and in the
\* run where bob holds user:auspex: in neither run does a frame the handler
\* writes carry the key 'acl'.
C23_AclOnlyForAuspex ==
    \A s \in Sessions, t \in Sessions :
        (s # t /\ proto[s].phase = "open" /\ proto[t].phase = "open")
        => \A acls \in {{}, {A_user_auspex}} :
             NoAclWritten(Holding(AliceAndBob(s, t), t, acls),
                          cmd_whois(Holding(AliceAndBob(s, t), t, acls), s, WhoisRequest))

\* C27: the reply to a whois is written to the session of the requester,
\* never to the session of the looked-up target, and a whois for a handle
\* that is not online writes only a non-fatal 'No such user' error to the
\* requester.  Stated of cmd_whois applied for alice, asking for bob and
\* asking for a handle nobody is online with.
C27_WhoisAnswersRequester ==
    \A s \in Sessions, t \in Sessions :
        (s # t /\ proto[s].phase = "open" /\ proto[t].phase = "open")
        => /\ cmd_whois(AliceAndBob(s, t), s, WhoisRequest).exc = ""
           /\ Len(WrittenBy(AliceAndBob(s, t),
                            cmd_whois(AliceAndBob(s, t), s, WhoisRequest), s)) = 1
           /\ WrittenBy(AliceAndBob(s, t),
                        cmd_whois(AliceAndBob(s, t), s, WhoisRequest), s)[1].frame.command
                  = S_whois
           /\ WrittenBy(AliceAndBob(s, t),
                        cmd_whois(AliceAndBob(s, t), s, WhoisRequest), t) = <<>>
           /\ RefusedBy(AliceAndBob(s, t),
                        cmd_whois(AliceAndBob(s, t), s, Frame(H_alice, S_bogus, S_whois, <<>>)),
                        s, t, S_whois, R_NoSuchUser)
           /\ WrittenBy(AliceAndBob(s, t),
                        cmd_whois(AliceAndBob(s, t), s, Frame(H_alice, S_bogus, S_whois, <<>>)),
                        t) = <<>>

\* C24: a register frame that passes all checks writes the new handle to
\* the credential store, then writes to the session the register echo,
\* carrying the chosen handle and gecos and the welcome message, and then
\* the signon frame, and leaves the session registered; a register frame
\* that fails a check leaves the store as it was and registers no user.
C24_RegisterStoresThenEnters ==
    [][\A s \in Sessions, chunk \in Chunks :
         (/\ ReceivesFrame(s, chunk)
          /\ ~HasUser(proto[s])
          /\ Line(s, chunk).command = S_register)
         => IF register_verdict(World, Line(s, chunk)).reason = <<>>
            THEN /\ DOMAIN user_store'
                      = DOMAIN user_store \cup {KvalFirst(Line(s, chunk).kval, K_handle, None)}
                 /\ Len(Written(s)) >= 2
                 /\ Written(s)[1].frame.command = S_register
                 /\ KvalGet(Written(s)[1].frame.kval, K_handle, <<>>)
                        = <<KvalFirst(Line(s, chunk).kval, K_handle, None)>>
                 /\ KvalGet(Written(s)[1].frame.kval, K_gecos, <<>>)
                        = <<KvalFirst(Line(s, chunk).kval, K_gecos,
                                      KvalFirst(Line(s, chunk).kval, K_handle, None))>>
                 /\ KvalGet(Written(s)[1].frame.kval, K_message, <<>>) = <<R_RegOk>>
                 /\ Written(s)[2].frame.command = S_signon
                 /\ HasUser(proto'[s])
                 /\ proto'[s].user.name = KvalFirst(Line(s, chunk).kval, K_handle, None)
            ELSE /\ user_store' = user_store
                 /\ ~HasUser(proto'[s])
                 /\ users' = users]_vars

\* the bytes of bs that follow its last terminator: all of bs without one
AfterLastTerminator(bs) == RPartition(bs)[3]

\* C25: after every data_received call the read buffer of the session
\* holds exactly the bytes received after the last frame terminator seen so
\* far, and is empty when the stream ends on a terminator.  The buffer
\* before the call holding the bytes after the last terminator of the
\* earlier reads, the buffer a call leaves holds those that follow the last
\* terminator of the buffer and the new bytes together.  Stated of the call
\* for every read an open session can be delivered.
C25_BufferIsUnterminatedTail ==
    \A s \in Sessions, chunk \in Chunks :
        proto[s].phase = "open"
        => data_received(World, s, chunk, PingDelayMin, 1).proto[s].buf
               = AfterLastTerminator(proto[s].buf \o chunk)
====
